---- MODULE Spec2Model ----
(***************************************************************************)
(* A model of the linkin URL shortener (src/app.js, src/db.js,             *)
(* src/middleware.js, src/config.js and the router in                      *)
(* src/unnamed/part_000).                                                  *)
(*                                                                         *)
(* Time is the value of Date.now() in milliseconds.  Node runs every       *)
(* request handler and every timer callback to completion on one thread,   *)
(* so each of them is one atomic action.  A handler is taken to see a       *)
(* single clock value, except in the specification SpecClock, where the    *)
(* clock may advance between the two clock reads of POST /shorten.         *)
(* Timestamps are stored by the code as ISO-8601 strings with millisecond  *)
(* precision (toISOString) and read back with new Date(s).getTime(); for   *)
(* the integral millisecond values Date.now() yields this round trip       *)
(* returns the same number, so the model keeps the number.                 *)
(***************************************************************************)
EXTENDS Integers, FiniteSets, Sequences, TLC

\* ---------------------------------------------------------------- constants

\* src/config.js
RATE_LIMIT == 5
RATE_WINDOW_MS == 60 * 60 * 1000
EXPIRY_MS == 168 * 60 * 60 * 1000
LAST_ACCESS_LIMIT == 72 * 60 * 60 * 1000
\* src/db.js: the delay handed to setTimeout in bufferedSave
FLUSH_DELAY_MS == 200
\* src/app.js: the period handed to setInterval(recycle, ...)
RECYCLE_INTERVAL_MS == 60 * 60 * 1000
\* src/db.js: let saveTimer = null
Null == -1

\* ------------------------------------------------------------------- bounds

\* Requests (POST /shorten, GET /:id, GET /:id/stats) served in one behaviour
\* of the store, the restart and the limiter specification.
MaxReqsStore == 3
MaxReqsRestart == 2
MaxReqsLimiter == 7
\* Requests of one client in one behaviour of the burst specification.
MaxReqsBurst == 11
\* Process terminations (and the restarts that follow) in one behaviour.
MaxKills == 1
\* The store specification runs the clock over this many sweep periods.
HorizonSweeps == 2

\* Milliseconds the clock may advance between two clock reads of a handler.
MaxClockStep == 1

\* The instant the process is started.  db.json may hold records written by
\* an earlier run, so Boot lies more than one EXPIRY_MS after time 0.
Boot == EXPIRY_MS + RECYCLE_INTERVAL_MS
MaxNowStore == Boot + HorizonSweeps * RECYCLE_INTERVAL_MS + FLUSH_DELAY_MS
MaxNowLimiter == Boot + RATE_WINDOW_MS + FLUSH_DELAY_MS
MaxNowBurst == Boot + 2 * RATE_WINDOW_MS + 2
\* A clock step shorter than the flush delay.
HalfDelay == FLUSH_DELAY_MS \div 2

Ids == {"aBc123", "xYz789"}
Clients == {"10.0.0.1", "10.0.0.2"}
Urls == {"", "https://example.com"}

VARIABLES
  now,            \* Date.now()
  up,             \* the node process is running
  dbCache,        \* src/db.js dbCache: id -> entry
  file,           \* db.json: [exists, sound, text]
  saveTimer,      \* src/db.js saveTimer: Null, or the instant the timeout is due
  nextSweep,      \* the instant the setInterval(recycle) timer is due next
  rateLimitStore, \* src/middleware.js rateLimitStore: ip -> [count, windowStart]
  res,            \* the response to the latest request
  reqs,           \* requests served so far
  kills,          \* process terminations so far
  nWrites,        \* completed writeFileSync calls so far
  lastWrite,      \* the latest timeout callback: [outcome, at]
  evicted,        \* ids deleted from dbCache and not stored again since
  swept,          \* recycle has run since the process started
  admitLog,       \* ip -> the instants at which rateLimiter called next()
  loads,          \* completed loadDB calls of the running process
  exit,           \* how the process ended last: "none", "uncaught", "killed"
  marks           \* calls of bufferedSave since the latest write or start

vars == <<now, up, dbCache, file, saveTimer, nextSweep, rateLimitStore, res,
          reqs, kills, nWrites, lastWrite, evicted, swept, admitLog, loads,
          exit, marks>>

\* ------------------------------------------------------------------ helpers

EmptyMap == [k \in {} |-> 0]

Put(m, k, v) == [x \in DOMAIN m \cup {k} |-> IF x = k THEN v ELSE m[x]]

Delete(m, k) == [x \in DOMAIN m \ {k} |-> m[x]]

\* JSON.stringify(dbCache, null, 2): the object's key/value members.
JSONstringify(cache) == {<<id, cache[id]>> : id \in DOMAIN cache}

\* JSON.parse of such a text: the object with one property per member.
JSONparse(text) ==
  [id \in {p[1] : p \in text} |-> (CHOOSE p \in text : p[1] = id)[2]]

\* A loadDB that catches what readFileSync and JSON.parse throw.
loadDBSwallows(f) == FALSE

\* src/db.js loadDB: readFileSync or JSON.parse throws.
loadDBThrows(f) == f.exists /\ ~f.sound

\* src/db.js loadDB: the cache after loading, given the cache before.
loadDB(cache, f) == IF f.exists THEN JSONparse(f.text) ELSE cache

\* A bufferedSave whose test of saveTimer is inverted.
bufferedSaveInverted(timer, t) ==
  IF timer = Null THEN timer ELSE t + FLUSH_DELAY_MS

\* A bufferedSave that starts the delay anew at every call.
bufferedSaveDebounce(timer, t) == t + FLUSH_DELAY_MS

\* A bufferedSave that hands no delay to setTimeout.
bufferedSaveNoDelay(timer, t) == IF timer # Null THEN timer ELSE t

\* src/db.js bufferedSave: the value of saveTimer after the call at instant t.
bufferedSave(timer, t) == IF timer # Null THEN timer ELSE t + FLUSH_DELAY_MS

\* A recycle that checks the fixed expiry only.
RecycleExpiryOnly(entry, t) == t > entry.expires

\* A recycle that calls bufferedSave at every deletion.
RecycleSignalsPerDeletion(dead) == Cardinality(dead)

\* src/db.js recycle: `if (changed) bufferedSave()`, the number of calls of
\* bufferedSave when the entries in dead were deleted.
RecycleSignals(dead) == IF dead # {} THEN 1 ELSE 0

\* src/db.js recycle: the condition under which an entry is deleted.
RecycleCondition(entry, t) ==
  \/ t > entry.expires
  \/ t - entry.lastAccessed > LAST_ACCESS_LIMIT

\* A handler that compares with >= where the code has >.
HandlerRefusesAtExpiry(cache, id, t) ==
  \/ id \notin DOMAIN cache
  \/ t >= cache[id].expires

\* router GET /:id and GET /:id/stats: the condition that answers 404.
HandlerRefuses(cache, id, t) ==
  \/ id \notin DOMAIN cache
  \/ t > cache[id].expires

\* A handler that accepts any body.
MissingUrlNever(url) == FALSE

\* router POST /shorten: `if (!url)`, the condition that answers 400.
MissingUrl(url) == url = ""

\* router POST /shorten: the entry stored for url; `new Date()` is read at
\* instant t (created, lastAccessed), `Date.now()` at instant later (expires).
NewEntry(url, t, later) ==
  [originalUrl |-> url, created |-> t, expires |-> later + EXPIRY_MS,
   lastAccessed |-> t, clicks |-> 0]

\* A handler that counts an access twice.
TouchTwice(entry, t) ==
  [entry EXCEPT !.clicks = @ + 2, !.lastAccessed = t]

\* router GET /:id: the entry after a successful access at instant t.
Touch(entry, t) ==
  [entry EXCEPT !.clicks = @ + 1, !.lastAccessed = t]

\* A limiter that forgets to compare the window's age.
WindowNeverStale(store, ip, t) == ip \notin DOMAIN store

\* src/middleware.js rateLimiter: the first branch (no record, or stale window).
WindowReset(store, ip, t) ==
  \/ ip \notin DOMAIN store
  \/ t - store[ip].windowStart > RATE_WINDOW_MS

\* A limiter that compares with > where the code has >=.
LimitReachedOffByOne(store, ip) == store[ip].count > RATE_LIMIT

\* src/middleware.js rateLimiter: the second branch (429).
LimitReached(store, ip) == store[ip].count >= RATE_LIMIT

\* src/middleware.js rateLimiter: whether next() is called.
Admits(store, ip, t) == WindowReset(store, ip, t) \/ ~LimitReached(store, ip)

\* A limiter that opens a window without counting the request that opens it.
rateLimiterCountsFromZero(store, ip, t) ==
  IF WindowReset(store, ip, t)
    THEN Put(store, ip, [count |-> 0, windowStart |-> t])
  ELSE IF LimitReached(store, ip)
    THEN store
  ELSE [store EXCEPT ![ip].count = @ + 1]

\* A limiter that counts the requests it refuses too.
rateLimiterCountsRefused(store, ip, t) ==
  IF WindowReset(store, ip, t)
    THEN Put(store, ip, [count |-> 1, windowStart |-> t])
  ELSE [store EXCEPT ![ip].count = @ + 1]

\* src/middleware.js rateLimiter: rateLimitStore after the call.
rateLimiter(store, ip, t) ==
  IF WindowReset(store, ip, t)
    THEN Put(store, ip, [count |-> 1, windowStart |-> t])
  ELSE IF LimitReached(store, ip)
    THEN store
  ELSE [store EXCEPT ![ip].count = @ + 1]

\* A route that validates the body before it consults the limiter.
shortenRouteValidatesFirst(store, ip, url, t) ==
  IF MissingUrl(url) THEN store ELSE rateLimiter(store, ip, t)

\* router.post("/shorten", rateLimiter, handler): rateLimitStore after the
\* request; the middleware runs before the handler looks at the body.
shortenRoute(store, ip, url, t) == rateLimiter(store, ip, t)

\* ----------------------------------------------------------------- db.json

\* Records an earlier run may have left in db.json: each was created at some
\* instant c, accessed last at some instant a >= c, and expires at c + EXPIRY_MS.
Aged(c, a, n) ==
  [originalUrl |-> "https://example.com", created |-> c,
   expires |-> c + EXPIRY_MS, lastAccessed |-> a, clicks |-> n]

\* Idle for exactly LAST_ACCESS_LIMIT at the first sweep (the last instant it
\* is live), fixed expiry far away.
IdleSoon == Aged(Boot - LAST_ACCESS_LIMIT - RECYCLE_INTERVAL_MS,
                 Boot + RECYCLE_INTERVAL_MS - LAST_ACCESS_LIMIT, 2)

\* Expires at the instant of the first sweep (the last instant it is live),
\* accessed recently.
OldFresh == Aged(Boot + RECYCLE_INTERVAL_MS - EXPIRY_MS,
                 Boot - RECYCLE_INTERVAL_MS, 7)

NoFile == [exists |-> FALSE, sound |-> TRUE, text |-> {}]

\* db.json that readFileSync cannot read or JSON.parse cannot parse.
UnsoundFile == [exists |-> TRUE, sound |-> FALSE, text |-> {}]

\* db.json as the process may find it: absent, or holding an aged record under
\* one id, the other, or both.
InitFiles ==
  {NoFile} \cup
  {[exists |-> TRUE, sound |-> TRUE, text |-> JSONstringify(m)] :
     m \in {[id \in S |-> IF id = "aBc123" THEN IdleSoon ELSE OldFresh] :
            S \in SUBSET Ids}}

NoWrite == [outcome |-> "none", at |-> 0]

NoResponse == [op |-> "none", ip |-> "-", id |-> "-", status |-> 0]

\* --------------------------------------------------------------------- Init

\* src/app.js: loadDB(), then setInterval(recycle, 1h), then listen.
Init ==
  /\ now = Boot
  /\ up = TRUE
  /\ file \in InitFiles
  /\ dbCache = loadDB(EmptyMap, file)
  /\ saveTimer = Null
  /\ nextSweep = Boot + RECYCLE_INTERVAL_MS
  /\ rateLimitStore = EmptyMap
  /\ res = NoResponse
  /\ reqs = 0
  /\ kills = 0
  /\ nWrites = 0
  /\ lastWrite = NoWrite
  /\ evicted = {}
  /\ swept = FALSE
  /\ admitLog = [ip \in Clients |-> <<>>]
  /\ loads = 1
  /\ exit = "none"
  /\ marks = 0

\* ------------------------------------------------------------------ actions

\* POST /shorten: rateLimiter, then the handler.  The clock advances by d
\* milliseconds between the handler's `new Date()` and its `Date.now()`; no
\* timer callback runs inside the handler, so none comes due before it ends.
ShortenAcross(ip, url, id, d) ==
  /\ up
  /\ d > 0 => \A due \in {nextSweep, saveTimer} \ {Null} : now + d <= due
  /\ reqs' = reqs + 1
  /\ rateLimitStore' = shortenRoute(rateLimitStore, ip, url, now)
  /\ admitLog' = IF Admits(rateLimitStore, ip, now)
                   THEN [admitLog EXCEPT ![ip] = Append(@, now)]
                 ELSE admitLog
  /\ IF ~Admits(rateLimitStore, ip, now)
       THEN /\ res' = [op |-> "shorten", ip |-> ip, id |-> "-", status |-> 429]
            /\ UNCHANGED <<now, dbCache, saveTimer, evicted, marks>>
     ELSE IF MissingUrl(url)
       THEN /\ res' = [op |-> "shorten", ip |-> ip, id |-> "-", status |-> 400]
            /\ UNCHANGED <<now, dbCache, saveTimer, evicted, marks>>
     ELSE /\ dbCache' = Put(dbCache, id, NewEntry(url, now, now + d))
          /\ saveTimer' = bufferedSave(saveTimer, now + d)
          /\ marks' = marks + 1
          /\ res' = [op |-> "shorten", ip |-> ip, id |-> id, status |-> 201]
          /\ evicted' = evicted \ {id}
          /\ now' = now + d
  /\ UNCHANGED <<up, file, nextSweep, kills, nWrites, lastWrite, swept, loads,
                 exit>>

\* POST /shorten with both clock reads of the handler in one millisecond.
Shorten(ip, url, id) == ShortenAcross(ip, url, id, 0)

\* The body shared by GET /:id (ok = 302) and GET /:id/stats (ok = 200).
Access(op, id, ok) ==
  /\ up
  /\ reqs' = reqs + 1
  /\ IF HandlerRefuses(dbCache, id, now)
       THEN /\ dbCache' = Delete(dbCache, id)
            /\ evicted' = evicted \cup ({id} \cap DOMAIN dbCache)
            /\ res' = [op |-> op, ip |-> "-", id |-> id, status |-> 404]
            /\ UNCHANGED <<saveTimer, marks>>
     ELSE /\ dbCache' = [dbCache EXCEPT ![id] = Touch(@, now)]
          /\ saveTimer' = bufferedSave(saveTimer, now)
          /\ marks' = marks + 1
          /\ res' = [op |-> op, ip |-> "-", id |-> id, status |-> ok]
          /\ UNCHANGED evicted
  /\ UNCHANGED <<now, up, file, nextSweep, rateLimitStore, kills, nWrites,
                 lastWrite, swept, admitLog, loads, exit>>

\* GET /:id
Resolve(id) == Access("resolve", id, 302)

\* GET /:id/stats
Inspect(id) == Access("inspect", id, 200)

\* The setInterval callback: src/db.js recycle.
Recycle ==
  /\ up
  /\ now = nextSweep
  /\ LET dead == {id \in DOMAIN dbCache : RecycleCondition(dbCache[id], now)}
     IN /\ dbCache' = [id \in DOMAIN dbCache \ dead |-> dbCache[id]]
        /\ saveTimer' = IF dead # {} THEN bufferedSave(saveTimer, now)
                        ELSE saveTimer
        /\ marks' = marks + RecycleSignals(dead)
        /\ evicted' = evicted \cup dead
  /\ nextSweep' = nextSweep + RECYCLE_INTERVAL_MS
  /\ swept' = TRUE
  /\ UNCHANGED <<now, up, file, rateLimitStore, res, reqs, kills, nWrites,
                 lastWrite, admitLog, loads, exit>>

\* The setTimeout callback of bufferedSave, writeFileSync succeeding.
Flush ==
  /\ up
  /\ saveTimer # Null
  /\ now = saveTimer
  /\ file' = [exists |-> TRUE, sound |-> TRUE, text |-> JSONstringify(dbCache)]
  /\ saveTimer' = Null
  /\ nWrites' = nWrites + 1
  /\ lastWrite' = [outcome |-> "ok", at |-> now]
  /\ marks' = 0
  /\ UNCHANGED <<now, up, dbCache, nextSweep, rateLimitStore, res, reqs, kills,
                 evicted, swept, admitLog, loads, exit>>

\* The process ends: the module state (dbCache, saveTimer, rateLimitStore) and
\* the timers go with it; db.json stays.
Exit ==
  /\ up' = FALSE
  /\ dbCache' = EmptyMap
  /\ saveTimer' = Null
  /\ rateLimitStore' = EmptyMap
  /\ nextSweep' = Null
  /\ swept' = FALSE
  /\ loads' = 0
  /\ marks' = 0

\* The setTimeout callback of bufferedSave, writeFileSync throwing (disk full,
\* permission denied).  Nothing catches the exception and no uncaughtException
\* handler is installed, so node prints it and exits.
FlushFails ==
  /\ up
  /\ saveTimer # Null
  /\ now = saveTimer
  /\ lastWrite' = [outcome |-> "failed", at |-> now]
  /\ exit' = "uncaught"
  /\ Exit
  /\ UNCHANGED <<now, file, res, reqs, kills, nWrites, evicted, admitLog>>

\* The process is terminated from outside (deploy, reboot, signal).
Kill ==
  /\ up
  /\ kills' = kills + 1
  /\ exit' = "killed"
  /\ Exit
  /\ UNCHANGED <<now, file, res, reqs, nWrites, lastWrite, evicted, admitLog>>

\* db.json after writeFileSync(DB_FILE, text) was cut short by the end of the
\* process: not opened yet (as before), opened with truncation and written
\* in part or not at all (no JSON text), or written in full.
CutShort(before, cache) ==
  {before, UnsoundFile,
   [exists |-> TRUE, sound |-> TRUE, text |-> JSONstringify(cache)]}

\* The process is terminated while the setTimeout callback of bufferedSave is
\* inside writeFileSync.
KillDuringWrite ==
  /\ up
  /\ saveTimer # Null
  /\ now = saveTimer
  /\ file' \in CutShort(file, dbCache)
  /\ kills' = kills + 1
  /\ exit' = "killed"
  /\ Exit
  /\ UNCHANGED <<now, res, reqs, nWrites, lastWrite, evicted, admitLog>>

\* The process is started (again): module state is fresh, then src/app.js runs
\* loadDB() and setInterval(recycle, 1h).
Restart ==
  /\ ~up
  /\ ~loadDBThrows(file)
  /\ up' = TRUE
  /\ dbCache' = loadDB(EmptyMap, file)
  /\ loads' = 1
  /\ exit' = "none"
  /\ saveTimer' = Null
  /\ rateLimitStore' = EmptyMap
  /\ nextSweep' = now + RECYCLE_INTERVAL_MS
  /\ UNCHANGED <<now, file, res, reqs, kills, nWrites, lastWrite, evicted,
                 swept, admitLog, marks>>

\* The process is started and loadDB throws: the exception leaves the module
\* body of src/app.js before setInterval and app.listen are reached, and node
\* exits.
StartFails ==
  /\ ~up
  /\ loadDBThrows(file)
  /\ exit' = "uncaught"
  /\ UNCHANGED <<now, up, dbCache, file, saveTimer, nextSweep, rateLimitStore,
                 res, reqs, kills, nWrites, lastWrite, evicted, swept, admitLog,
                 loads, marks>>

\* The instants at which the outcome of a comparison on a record changes.
RecordInstants ==
  UNION {{dbCache[id].expires, dbCache[id].expires + 1,
          dbCache[id].lastAccessed + LAST_ACCESS_LIMIT,
          dbCache[id].lastAccessed + LAST_ACCESS_LIMIT + 1} :
         id \in DOMAIN dbCache}

\* The instants at which a rate window goes stale.
WindowInstants ==
  UNION {{rateLimitStore[ip].windowStart + RATE_WINDOW_MS,
          rateLimitStore[ip].windowStart + RATE_WINDOW_MS + 1} :
         ip \in DOMAIN rateLimitStore}

\* The instants at which a timer is due.
TimerInstants ==
  (IF nextSweep # Null THEN {nextSweep} ELSE {})
  \cup (IF saveTimer # Null THEN {saveTimer} ELSE {})

\* An instant before the pending flush is due.
HalfwayInstants == IF saveTimer # Null THEN {now + HalfDelay} ELSE {}

\* While the process is down the clock may also reach the instant at which it
\* would have swept next.
DownInstants == IF up THEN {} ELSE {now + RECYCLE_INTERVAL_MS}

\* Time passes, to one of the instants given and not beyond max.  A running
\* process does not let a due timer wait: the clock does not pass saveTimer or
\* nextSweep before their callbacks have run.
Tick(instants, max) ==
  /\ \E t \in instants :
       /\ t > now
       /\ t <= max
       /\ up => t <= nextSweep
       /\ (up /\ saveTimer # Null) => t <= saveTimer
       /\ now' = t
  /\ UNCHANGED <<up, dbCache, file, saveTimer, nextSweep, rateLimitStore, res,
                 reqs, kills, nWrites, lastWrite, evicted, swept, admitLog,
                 loads, exit, marks>>

\* ----------------------------------------------------------- specifications

\* The store, its sweeper and the write-back timer over two sweep periods; one
\* client, which stays below the rate limit.  A failed write ends the process.
NextStore ==
  \/ reqs < MaxReqsStore /\ \E id \in Ids : Shorten("10.0.0.1", "https://example.com", id)
  \/ reqs < MaxReqsStore /\ \E id \in Ids : Resolve(id)
  \/ reqs < MaxReqsStore /\ \E id \in Ids : Inspect(id)
  \/ Recycle
  \/ Flush
  \/ FlushFails
  \/ Tick(RecordInstants \cup TimerInstants \cup HalfwayInstants, MaxNowStore)

Spec == Init /\ [][NextStore]_vars

\* The same, with the process terminated and started again.
NextRestart ==
  \/ reqs < MaxReqsRestart /\ \E id \in Ids : Shorten("10.0.0.1", "https://example.com", id)
  \/ reqs < MaxReqsRestart /\ \E id \in Ids : Resolve(id)
  \/ reqs < MaxReqsRestart /\ \E id \in Ids : Inspect(id)
  \/ Recycle
  \/ Flush
  \/ FlushFails
  \/ kills < MaxKills /\ Kill
  \/ kills < MaxKills /\ KillDuringWrite
  \/ Restart
  \/ StartFails
  \/ Tick(RecordInstants \cup TimerInstants \cup DownInstants, MaxNowStore)

SpecRestart == Init /\ [][NextRestart]_vars

\* The limiter over one rate window and the start of the next: POST /shorten
\* from two clients, with and without a url.
NextLimiter ==
  \/ reqs < MaxReqsLimiter /\ \E ip \in Clients, url \in Urls : Shorten(ip, url, "xYz789")
  \/ Recycle
  \/ Flush
  \/ Tick(WindowInstants \cup TimerInstants, MaxNowLimiter)

\* A first deployment: no db.json yet.
InitFresh == Init /\ file = NoFile

SpecLimiter == InitFresh /\ [][NextLimiter]_vars

\* The store with the clock advancing inside POST /shorten.
NextClock ==
  \/ reqs < MaxReqsRestart
       /\ \E id \in Ids, d \in 0..MaxClockStep :
            ShortenAcross("10.0.0.1", "https://example.com", id, d)
  \/ reqs < MaxReqsRestart /\ \E id \in Ids : Resolve(id)
  \/ reqs < MaxReqsRestart /\ \E id \in Ids : Inspect(id)
  \/ Recycle
  \/ Flush
  \/ Tick(RecordInstants \cup TimerInstants, MaxNowStore)

SpecClock == Init /\ [][NextClock]_vars

\* The process before `node app.js`: nothing of it exists yet, and db.json is
\* absent, left by an earlier run, or unreadable.
InitDown ==
  /\ now = Boot
  /\ up = FALSE
  /\ file \in InitFiles \cup {UnsoundFile}
  /\ dbCache = EmptyMap
  /\ saveTimer = Null
  /\ nextSweep = Null
  /\ rateLimitStore = EmptyMap
  /\ res = NoResponse
  /\ reqs = 0
  /\ kills = 0
  /\ nWrites = 0
  /\ lastWrite = NoWrite
  /\ evicted = {}
  /\ swept = FALSE
  /\ admitLog = [ip \in Clients |-> <<>>]
  /\ loads = 0
  /\ exit = "none"
  /\ marks = 0

\* The start of the process, and the store once it runs.
NextStartup ==
  \/ Restart
  \/ StartFails
  \/ reqs < MaxReqsRestart /\ \E id \in Ids : Shorten("10.0.0.1", "https://example.com", id)
  \/ reqs < MaxReqsRestart /\ \E id \in Ids : Resolve(id)
  \/ reqs < MaxReqsRestart /\ \E id \in Ids : Inspect(id)
  \/ Recycle
  \/ Flush
  \/ Tick(RecordInstants \cup TimerInstants \cup DownInstants, MaxNowStore)

SpecStartup == InitDown /\ [][NextStartup]_vars

\* One client over two rate windows and the start of a third: POST /shorten
\* with a url, so that every admitted request stores a record.
NextBurst ==
  \/ reqs < MaxReqsBurst /\ Shorten("10.0.0.1", "https://example.com", "xYz789")
  \/ Recycle
  \/ Flush
  \/ Tick(WindowInstants \cup TimerInstants, MaxNowBurst)

SpecBurst == InitFresh /\ [][NextBurst]_vars

\* --------------------------------------------------- vocabulary of the claims

\* The liveness predicate of a record at instant t.
Live(entry, t) ==
  /\ t <= entry.expires
  /\ t - entry.lastAccessed <= LAST_ACCESS_LIMIT

\* The last instant at which a record is live if it is not accessed again.
LastLive(entry) ==
  IF entry.expires <= entry.lastAccessed + LAST_ACCESS_LIMIT
    THEN entry.expires
  ELSE entry.lastAccessed + LAST_ACCESS_LIMIT

\* The mapping db.json holds (none when there is no file).
DurableMap == IF file.exists THEN JSONparse(file.text) ELSE EmptyMap

\* The step is a GET /:id or GET /:id/stats request for id.
AccessStep(id) ==
  /\ reqs' = reqs + 1
  /\ res'.op \in {"resolve", "inspect"}
  /\ res'.id = id

\* The step is a POST /shorten request of client ip.
ShortenStep(ip) ==
  /\ reqs' = reqs + 1
  /\ res'.op = "shorten"
  /\ res'.ip = ip

\* The step is a run of recycle.
SweepStep == up /\ up' /\ nextSweep' # nextSweep

\* The step is a completed durable write.
WriteStep == nWrites' # nWrites

\* The admissions of client ip at or after instant t.
AdmittedSince(ip, t) ==
  Cardinality({i \in DOMAIN admitLog[ip] : admitLog[ip][i] >= t})

\* The entry of id in dbCache is not what db.json holds for id.
Unsaved(id) ==
  \/ id \notin DOMAIN DurableMap
  \/ DurableMap[id] # dbCache[id]

\* ------------------------------------------------------------------- claims

\* C1: whenever the record stored under id is not live (now > expires, or idle
\* for more than LAST_ACCESS_LIMIT), GET /:id and GET /:id/stats answer 404 and
\* the record is gone from the store when the call returns.
C1_NotLiveIsRefused ==
  [][\A id \in Ids :
       (AccessStep(id) /\ id \in DOMAIN dbCache /\ ~Live(dbCache[id], now))
         => (res'.status = 404 /\ id \notin DOMAIN dbCache')]_vars

\* C2: the count of a client's window is the number of its admissions since the
\* window started and never exceeds RATE_LIMIT; a request made within the
\* window is refused exactly when RATE_LIMIT admissions were made in it already,
\* and a request made with no window or a stale one is admitted.
C2_AtMostLimitPerWindow ==
  /\ [](\A ip \in DOMAIN rateLimitStore :
          /\ rateLimitStore[ip].count
               = AdmittedSince(ip, rateLimitStore[ip].windowStart)
          /\ rateLimitStore[ip].count <= RATE_LIMIT)
  /\ [][\A ip \in Clients :
          ShortenStep(ip) =>
            IF /\ ip \in DOMAIN rateLimitStore
               /\ now - rateLimitStore[ip].windowStart <= RATE_WINDOW_MS
              THEN res'.status = 429
                     <=> AdmittedSince(ip, rateLimitStore[ip].windowStart)
                           >= RATE_LIMIT
            ELSE res'.status # 429]_vars

\* C2 witness: a client has used up its window and its next request in the
\* same window was refused.
C2_Witness ==
  \E ip \in DOMAIN rateLimitStore :
    /\ rateLimitStore[ip].count = RATE_LIMIT
    /\ Len(admitLog[ip]) = RATE_LIMIT
    /\ res = [op |-> "shorten", ip |-> ip, id |-> "-", status |-> 429]

\* C3: a request made when now - windowStart > RATE_WINDOW_MS is admitted and
\* leaves the window {count: 1, windowStart: now}; windowStart is the instant
\* of the first admission of the current window, and a request made within
\* the window (admitted or refused) does not move it.
C3_StaleWindowIsReplaced ==
  /\ [](\A ip \in DOMAIN rateLimitStore :
          /\ rateLimitStore[ip].count <= Len(admitLog[ip])
          /\ rateLimitStore[ip].windowStart
               = admitLog[ip][Len(admitLog[ip]) - rateLimitStore[ip].count + 1])
  /\ [][\A ip \in Clients :
          (ShortenStep(ip) /\ ip \in DOMAIN rateLimitStore) =>
            IF now - rateLimitStore[ip].windowStart > RATE_WINDOW_MS
              THEN /\ res'.status # 429
                   /\ rateLimitStore'[ip] = [count |-> 1, windowStart |-> now]
            ELSE rateLimitStore'[ip].windowStart
                   = rateLimitStore[ip].windowStart]_vars

\* C3 witness: a client made RATE_LIMIT admitted requests and a refused one,
\* and its request after the window went stale opened a new window.
C3_Witness ==
  \E ip \in DOMAIN rateLimitStore :
    /\ reqs = RATE_LIMIT + 2
    /\ Len(admitLog[ip]) = RATE_LIMIT + 1
    /\ \A other \in Clients \ {ip} : admitLog[other] = <<>>
    /\ rateLimitStore[ip] = [count |-> 1, windowStart |-> now]
    /\ now > admitLog[ip][1] + RATE_WINDOW_MS
    /\ res.op = "shorten" /\ res.ip = ip /\ res.status # 429

\* C4: when no flush is pending in a running process, db.json holds the
\* mapping that is in memory (every change of the store leads to a write).
C4_IdleMeansDurable ==
  (up /\ saveTimer = Null) => DurableMap = dbCache

\* C5: a pending flush is due within FLUSH_DELAY_MS; a durable write happens
\* only when the pending timer fires, it is one write, it stores the mapping
\* that is in memory at that instant, it leaves no flush pending, and it comes
\* no sooner than FLUSH_DELAY_MS after the write before it: the mutations made
\* within one flush delay of the first of them are written by one write.
C5_WriteCoalescing ==
  /\ []((up /\ saveTimer # Null) =>
         (now <= saveTimer /\ saveTimer <= now + FLUSH_DELAY_MS))
  /\ [][WriteStep =>
          /\ nWrites' = nWrites + 1
          /\ saveTimer # Null
          /\ now = saveTimer
          /\ saveTimer' = Null
          /\ dbCache' = dbCache
          /\ DurableMap' = dbCache
          /\ lastWrite.outcome = "ok" => now >= lastWrite.at + FLUSH_DELAY_MS]_vars

\* C5 witness: one write has been made, and it holds a record that was created
\* after the start and accessed at a later instant of the same flush delay.
C5_Witness ==
  /\ nWrites = 1
  /\ \E id \in DOMAIN DurableMap :
       /\ DurableMap[id].created >= Boot
       /\ DurableMap[id].clicks >= 1
       /\ DurableMap[id].lastAccessed > DurableMap[id].created
       /\ lastWrite.at < DurableMap[id].created + FLUSH_DELAY_MS + HalfDelay

\* C6: a failing durable write leaves the process running and the store as it
\* was.
C6_WriteFailureIsSurvived ==
  [][(lastWrite' # lastWrite /\ lastWrite'.outcome = "failed")
       => (up' /\ dbCache' = dbCache)]_vars

C8_LiveRecordsSurvive ==
  [][(up /\ up') =>
       \A id \in DOMAIN dbCache :
         Live(dbCache[id], now) =>
           /\ id \in DOMAIN dbCache'
           /\ AccessStep(id) =>
                /\ res'.status \in {200, 302}
                /\ dbCache'[id] = Touch(dbCache[id], now)]_vars

\* C8 witness: a record accessed within every idle limit is resolved at the
\* very instant it expires, after sweeps have run.
C8_Witness ==
  /\ swept
  /\ \E id \in DOMAIN dbCache :
       /\ now = dbCache[id].expires
       /\ dbCache[id].lastAccessed = now
       /\ dbCache[id].created < Boot
       /\ res = [op |-> "resolve", ip |-> "-", id |-> id, status |-> 302]

\* C9: a sweep leaves in the store exactly the records that are live at the
\* instant of the sweep, unchanged; and once the process has swept, no record
\* is in the store more than RECYCLE_INTERVAL_MS after its last live instant.
C9_SweepRemovesExactlyTheDead ==
  /\ [][SweepStep =>
          dbCache' = [id \in {i \in DOMAIN dbCache : Live(dbCache[i], now)}
                        |-> dbCache[id]]]_vars
  /\ []((up /\ swept) =>
         \A id \in DOMAIN dbCache :
           now <= LastLive(dbCache[id]) + RECYCLE_INTERVAL_MS)

\* C9 witness: the second sweep has removed a record that was idle for too
\* long but not expired, and has kept a live one.
C9_Witness ==
  /\ up /\ swept
  /\ now = Boot + 2 * RECYCLE_INTERVAL_MS
  /\ nextSweep > now
  /\ \E id \in evicted :
       /\ id \notin DOMAIN dbCache
       /\ id \in DOMAIN DurableMap
       /\ DurableMap[id].expires > now
       /\ now - DurableMap[id].lastAccessed > LAST_ACCESS_LIMIT
  /\ \E id \in DOMAIN dbCache : Live(dbCache[id], now)

\* C10: a request for an id that was evicted, and that no create has stored
\* again since, answers 404, restarts included.
C10_EvictionIsPermanent ==
  [][\A id \in Ids :
       (AccessStep(id) /\ id \in evicted) => res'.status = 404]_vars

\* The step is a POST /shorten request that stored a record under id.
CreateStep(id) ==
  /\ reqs' = reqs + 1
  /\ res'.op = "shorten"
  /\ res'.status = 201
  /\ res'.id = id

\* C11: a create stores its record with clicks = 0; from then on a successful
\* GET /:id or GET /:id/stats for its id adds exactly 1 to clicks, a refused
\* one leaves no record to count on, no other step changes clicks, and
\* originalUrl stays what it was.
C11_ClicksCountAccesses ==
  [][\A id \in Ids :
       /\ CreateStep(id) =>
            (id \in DOMAIN dbCache' /\ dbCache'[id].clicks = 0)
       /\ (AccessStep(id) /\ res'.status = 404) => id \notin DOMAIN dbCache'
       /\ (id \in DOMAIN dbCache /\ id \in DOMAIN dbCache' /\ ~CreateStep(id))
            => /\ dbCache'[id].originalUrl = dbCache[id].originalUrl
               /\ dbCache'[id].clicks
                    = dbCache[id].clicks
                        + (IF AccessStep(id) /\ res'.status \in {200, 302}
                             THEN 1 ELSE 0)]_vars

\* C11 witness: the first request for a record created in this run was a
\* GET /:id at a later instant, and the record has clicks = 1.
C11_Witness ==
  \E id \in DOMAIN dbCache :
    /\ res = [op |-> "resolve", ip |-> "-", id |-> id, status |-> 302]
    /\ dbCache[id].created >= Boot
    /\ dbCache[id].lastAccessed > dbCache[id].created
    /\ dbCache[id].originalUrl = "https://example.com"
    /\ dbCache[id].clicks = 1

\* C12: of one client's admitted requests, those whose instants lie within a
\* span of at most RATE_WINDOW_MS number at most 2 * RATE_LIMIT - 1 (admitLog
\* is in order of time, so such a set is a run of consecutive admissions).
C12_BurstBound ==
  \A ip \in Clients :
    \A i, j \in DOMAIN admitLog[ip] :
      (i <= j /\ admitLog[ip][j] - admitLog[ip][i] <= RATE_WINDOW_MS)
        => j - i + 1 <= 2 * RATE_LIMIT - 1

\* C12 witness: RATE_LIMIT - 1 admissions at the last instant of one window
\* and RATE_LIMIT at the first instant of the next: 2 * RATE_LIMIT - 1 within
\* one millisecond.
C12_Witness ==
  \E ip \in DOMAIN rateLimitStore :
    LET log == admitLog[ip]
        n == Len(log)
    IN /\ n = 2 * RATE_LIMIT
       /\ rateLimitStore[ip] = [count |-> RATE_LIMIT, windowStart |-> now]
       /\ log[n] - log[2] = 1
       /\ log[RATE_LIMIT] = log[1] + RATE_WINDOW_MS
       /\ log[RATE_LIMIT + 1] = log[1] + RATE_WINDOW_MS + 1

\* C13: a POST /shorten without a url that the limiter admits answers 400 and
\* leaves dbCache, the pending flush (or its absence) and db.json as they
\* were.
C13_MissingUrlChangesNothing ==
  [][\A ip \in Clients, id \in Ids :
       (Shorten(ip, "", id) /\ Admits(rateLimitStore, ip, now))
         => /\ res'.status = 400
            /\ dbCache' = dbCache
            /\ saveTimer' = saveTimer
            /\ file' = file]_vars

\* C13 witness: a request without a url was answered 400 while the store
\* holds a written record and no flush is pending.
C13_Witness ==
  /\ res.op = "shorten" /\ res.status = 400
  /\ saveTimer = Null
  /\ nWrites = 1
  /\ dbCache # EmptyMap
  /\ DurableMap = dbCache

\* db.json exists and cannot be read or parsed.
Unreadable == file.exists /\ ~file.sound

\* The step is the start of the process reaching app.listen.
StartStep == ~up /\ up'

\* C14: a running process has completed loadDB exactly once, and did so in the
\* step that started it, before any request or sweep; that step leaves the
\* store empty when there is no db.json and equal to the mapping of db.json
\* when there is one; and with a db.json that cannot be read or parsed the
\* process never runs: it serves no request, sweeps nothing and writes nothing.
C14_LoadOnceBeforeTraffic ==
  /\ [](up => loads = 1)
  /\ [][(reqs' # reqs \/ SweepStep \/ WriteStep) => (up /\ loads = 1)]_vars
  /\ [][loads' # loads => (StartStep \/ ~up')]_vars
  /\ [][StartStep =>
          /\ ~Unreadable
          /\ reqs' = reqs
          /\ dbCache' = IF file.exists THEN DurableMap ELSE EmptyMap]_vars
  /\ [][(~up /\ Unreadable) =>
          (~up' /\ reqs' = reqs /\ file' = file /\ dbCache' = EmptyMap)]_vars

\* C14 witness: with an unreadable db.json the start ended in an uncaught
\* exception; no request was served.
C14_Witness ==
  /\ ~up
  /\ Unreadable
  /\ exit = "uncaught"
  /\ loads = 0
  /\ reqs = 0
  /\ nextSweep = Null

\* C15: when the process ends during a durable write, db.json is afterwards
\* the snapshot it held before or the snapshot being written, and the next
\* start does not fail on it.
C15_NoPartialWrite ==
  /\ [][kills' # kills =>
          \/ file' = file
          \/ (file'.sound /\ file'.exists /\ DurableMap' = dbCache)]_vars
  /\ [](exit = "uncaught" => lastWrite.outcome = "failed")

\* C16: a sweep that deletes one record or more calls bufferedSave once, which
\* schedules one flush when none is pending and changes nothing when one is; a
\* sweep that deletes nothing does not call it and leaves the timer alone; and
\* a flush is pending only when bufferedSave was called since the latest write.
C16_OneSignalPerSweep ==
  /\ [][SweepStep =>
          IF DOMAIN dbCache' # DOMAIN dbCache
            THEN /\ marks' = marks + 1
                 /\ saveTimer' = IF saveTimer = Null THEN now + FLUSH_DELAY_MS
                                 ELSE saveTimer
          ELSE /\ marks' = marks
               /\ saveTimer' = saveTimer]_vars
  /\ [](saveTimer # Null => marks >= 1)

\* C16 witness: the first sweep deleted nothing; the second deleted both
\* records and one write, the only one, has stored the empty mapping.
C16_Witness ==
  /\ up
  /\ reqs = 0
  /\ evicted = Ids
  /\ marks = 0
  /\ nWrites = 1
  /\ saveTimer = Null
  /\ file.exists /\ DurableMap = EmptyMap
  /\ now = Boot + 2 * RECYCLE_INTERVAL_MS + FLUSH_DELAY_MS

\* The step calls bufferedSave.
MarkStep == marks' > marks

C18_RefusalChangesNothing ==
  [][\A ip \in Clients :
       (ShortenStep(ip) /\ res'.status = 429)
         => /\ rateLimitStore' = rateLimitStore
            /\ dbCache' = dbCache
            /\ saveTimer' = saveTimer
            /\ marks' = marks
            /\ file' = file]_vars

\* C18 witness: a client was refused while another client has a window of its
\* own, a record is stored and its flush is pending.
C18_Witness ==
  /\ res.status = 429
  /\ DOMAIN rateLimitStore = Clients
  /\ rateLimitStore[res.ip].count = RATE_LIMIT
  /\ \E other \in Clients : rateLimitStore[other].count < RATE_LIMIT
  /\ dbCache # EmptyMap
  /\ saveTimer # Null

\* C19: every record in the store has expires = created + EXPIRY_MS and
\* lastAccessed >= created, and a step that keeps a record and is not a create
\* under its id leaves its originalUrl, created and expires as they were.
C19_RecordShape ==
  /\ [](\A id \in DOMAIN dbCache :
          /\ dbCache[id].expires = dbCache[id].created + EXPIRY_MS
          /\ dbCache[id].lastAccessed >= dbCache[id].created)
  /\ [][\A id \in Ids :
          (id \in DOMAIN dbCache /\ id \in DOMAIN dbCache' /\ ~CreateStep(id))
            => /\ dbCache'[id].originalUrl = dbCache[id].originalUrl
               /\ dbCache'[id].created = dbCache[id].created
               /\ dbCache'[id].expires = dbCache[id].expires]_vars

\* C20: the id under which POST /shorten stores a record is not a key of
\* dbCache when the request is made, so the create adds one record to the
\* store and leaves every record that was there as it was.
C20_CreateUnderFreshId ==
  [][\A id \in Ids :
       CreateStep(id) =>
         /\ id \notin DOMAIN dbCache
         /\ Cardinality(DOMAIN dbCache') = Cardinality(DOMAIN dbCache) + 1
         /\ \A other \in DOMAIN dbCache : /\ other \in DOMAIN dbCache'
                                           /\ dbCache'[other] = dbCache[other]]_vars

\* C21: a POST /shorten that is answered 400 has been counted by the limiter
\* (count is 1 in a new window, one more in a running one), and so has every
\* POST /shorten that stored a record: a client's window count is at least the
\* number of records it created in the window, and may be used up with none.
C21_ChargedBeforeValidation ==
  [][\A ip \in Clients :
       (ShortenStep(ip) /\ res'.status \in {201, 400})
         => /\ ip \in DOMAIN rateLimitStore'
            /\ rateLimitStore'[ip].count
                 = IF /\ ip \in DOMAIN rateLimitStore
                      /\ now - rateLimitStore[ip].windowStart <= RATE_WINDOW_MS
                     THEN rateLimitStore[ip].count + 1
                   ELSE 1
            /\ Len(admitLog'[ip]) = Len(admitLog[ip]) + 1]_vars

\* C21 witness: a client has used up its window with requests that had no
\* url and is refused, and no record was ever stored.
C21_Witness ==
  /\ res.op = "shorten" /\ res.status = 429
  /\ rateLimitStore[res.ip].count = RATE_LIMIT
  /\ reqs = RATE_LIMIT + 1
  /\ dbCache = EmptyMap
  /\ marks = 0
  /\ nWrites = 0
  /\ ~file.exists

====
